---- MODULE Spec2Model ----
(***************************************************************************)
(* Model of src/lstm_train.py: one run of the script, from the evaluation  *)
(* of the module body to the end of the interpreter process.               *)
(*                                                                         *)
(* The input of a run is the way the module is entered (run as a script or *)
(* imported) and the content of data/SBUX.csv.  Of a table only the header *)
(* and the Date value of each row are kept: no statement of main() looks   *)
(* at any other cell.                                                      *)
(***************************************************************************)
EXTENDS Integers, Sequences, FiniteSets

\* ------------------------------------------------------------- bounds
MaxRows == 6          \* rows of the input table (more than df.head shows)
MaxDate == 2          \* distinct calendar days, numbered 1..MaxDate

\* ------------------------------------------------------------- constants
HeadRows == 5         \* df.head(5)

IndexCol  == "Date"   \* index_col='Date'
PlotCol   == "Volume" \* df['Volume']
AllColumns == {"Date", "Open", "High", "Low", "Close", "Volume"}

Dates == 1..MaxDate

RowSeqs == UNION {[1..n -> Dates] : n \in 0..MaxRows}

\* What can be found at data/SBUX.csv.
\*   missing    : no such file
\*   empty      : a file of zero bytes
\*   unparsable : a file the CSV tokenizer rejects (ragged rows)
\*   table      : a header (cols) and rows, given by their Date cell
Files ==
    {[kind |-> k, cols |-> {}, rows |-> <<>>] : k \in {"missing", "empty", "unparsable"}}
    \cup
    {[kind |-> "table", cols |-> c, rows |-> r] : c \in SUBSET AllColumns, r \in RowSeqs}

VARIABLES
    runMode,    \* "script": __name__ == "__main__";  "import": any other name
    file,       \* content of data/SBUX.csv
    pc,         \* position of the interpreter
    df,         \* main's local df
    steps,      \* statements of main() started so far, in order
    preview,    \* rows printed by print(df.head(5))
    plotted,    \* column handed to the plot
    shown,      \* plt.show() has displayed the figure
    exc,        \* exception propagating out of main(), "none" if none
    exitCode,   \* exit status of the process, -1 while it runs
    artifact,   \* a model file has been written
    mainCalls   \* number of calls of main()

vars == <<runMode, file, pc, df, steps, preview, plotted, shown, exc, exitCode,
          artifact, mainCalls>>

NoFrame == [loaded |-> FALSE, index |-> <<>>, columns |-> {}]

\* ------------------------------------------------------------- helpers

\* pd.read_csv('data/SBUX.csv', index_col='Date', parse_dates=True):
\* the exception it raises, or "ok".
ReadCsvOutcome(f) ==
    CASE f.kind = "missing"    -> "FileNotFoundError"
      [] f.kind = "empty"      -> "EmptyDataError"
      [] f.kind = "unparsable" -> "ParserError"
      [] OTHER -> IF IndexCol \in f.cols THEN "ok" ELSE "ValueError"

\* The frame read_csv returns: the rows in file order, indexed by their Date
\* cell; the index column is no longer a data column.  Nothing is sorted and
\* nothing is dropped.
ReadCsvFrame(f) ==
    [loaded |-> TRUE, index |-> f.rows, columns |-> f.cols \ {IndexCol}]

\* DataFrame.head(n)
DataFrameHead(s, n) == IF Len(s) <= n THEN s ELSE SubSeq(s, 1, n)

\* df['Volume'].plot(...): the exception it raises, or "ok".
PlotOutcome(d) ==
    IF PlotCol \notin d.columns THEN "KeyError"
    ELSE IF Len(d.index) = 0 THEN "TypeError"
    ELSE "ok"

\* main() has no try/except: a statement that raises ends main().
ContinueSwallow(outcome, next) == next

Continue(outcome, next) == IF outcome = "ok" THEN next ELSE "raised"

\* if __name__ == "__main__":
GuardAlways(mode) == TRUE

GuardCallsMain(mode) == mode = "script"

\* "# Save the model" is a comment: nothing is written.
SaveTheModelWrites(a) == TRUE

SaveTheModel(a) == a

\* ------------------------------------------------------------- Init

Init ==
    /\ runMode \in {"script", "import"}
    /\ file \in Files
    /\ pc = "module"
    /\ df = NoFrame
    /\ steps = <<>>
    /\ preview = <<>>
    /\ plotted = "none"
    /\ shown = FALSE
    /\ exc = "none"
    /\ exitCode = -1
    /\ artifact = FALSE
    /\ mainCalls = 0

\* ------------------------------------------------------------- actions

\* The module body reaches the guard at the bottom of the file.
ModuleBody ==
    /\ pc = "module"
    /\ IF GuardCallsMain(runMode)
         THEN /\ pc' = "greet"
              /\ mainCalls' = mainCalls + 1
         ELSE /\ pc' = "imported"
              /\ UNCHANGED mainCalls
    /\ UNCHANGED <<runMode, file, df, steps, preview, plotted, shown, exc,
                   exitCode, artifact>>

\* print("Hello World!")
Greet ==
    /\ pc = "greet"
    /\ steps' = Append(steps, "greet")
    /\ pc' = "read"
    /\ UNCHANGED <<runMode, file, df, preview, plotted, shown, exc, exitCode,
                   artifact, mainCalls>>

\* df = pd.read_csv(...)
ReadCsv ==
    /\ pc = "read"
    /\ steps' = Append(steps, "read")
    /\ LET o == ReadCsvOutcome(file) IN
         /\ IF o = "ok"
              THEN df' = ReadCsvFrame(file) /\ UNCHANGED exc
              ELSE exc' = o /\ UNCHANGED df
         /\ pc' = Continue(o, "preview")
    /\ UNCHANGED <<runMode, file, preview, plotted, shown, exitCode, artifact,
                   mainCalls>>

\* print(df.head(5))
Preview ==
    /\ pc = "preview"
    /\ steps' = Append(steps, "preview")
    /\ preview' = DataFrameHead(df.index, HeadRows)
    /\ pc' = "style"
    /\ UNCHANGED <<runMode, file, df, plotted, shown, exc, exitCode, artifact,
                   mainCalls>>

\* plt.style.use('ggplot')
Style ==
    /\ pc = "style"
    /\ steps' = Append(steps, "style")
    /\ pc' = "plot"
    /\ UNCHANGED <<runMode, file, df, preview, plotted, shown, exc, exitCode,
                   artifact, mainCalls>>

\* df['Volume'].plot(label='CLOSE', title='Star Bucks Stock Volume')
Plot ==
    /\ pc = "plot"
    /\ steps' = Append(steps, "plot")
    /\ LET o == PlotOutcome(df) IN
         /\ IF o = "ok"
              THEN plotted' = PlotCol /\ UNCHANGED exc
              ELSE exc' = o /\ UNCHANGED plotted
         /\ pc' = Continue(o, "show")
    /\ UNCHANGED <<runMode, file, df, preview, shown, exitCode, artifact,
                   mainCalls>>

\* plt.show()
Show ==
    /\ pc = "show"
    /\ steps' = Append(steps, "show")
    /\ shown' = TRUE
    /\ pc' = "placeholders"
    /\ UNCHANGED <<runMode, file, df, preview, plotted, exc, exitCode, artifact,
                   mainCalls>>

\* The five comments that end main(): define, compile, train, evaluate, save.
\* None is a statement; main() returns.
Placeholders ==
    /\ pc = "placeholders"
    /\ artifact' = SaveTheModel(artifact)
    /\ pc' = "return"
    /\ UNCHANGED <<runMode, file, df, steps, preview, plotted, shown, exc,
                   exitCode, mainCalls>>

\* main() has returned and the module body ends: a script's process exits
\* with status 0, an import hands control back to the importer.
ModuleEnd ==
    /\ pc = "return"
    /\ IF runMode = "script"
         THEN pc' = "exited" /\ exitCode' = 0
         ELSE pc' = "imported" /\ UNCHANGED exitCode
    /\ UNCHANGED <<runMode, file, df, steps, preview, plotted, shown, exc,
                   artifact, mainCalls>>

\* An exception left main(): nothing catches it, the interpreter prints the
\* traceback and exits with status 1.
Uncaught ==
    /\ pc = "raised"
    /\ pc' = "exited"
    /\ exitCode' = 1
    /\ UNCHANGED <<runMode, file, df, steps, preview, plotted, shown, exc,
                   artifact, mainCalls>>

Next ==
    \/ ModuleBody
    \/ Greet
    \/ ReadCsv
    \/ Preview
    \/ Style
    \/ Plot
    \/ Show
    \/ Placeholders
    \/ ModuleEnd
    \/ Uncaught

Spec == Init /\ [][Next]_vars

\* ------------------------------------------------------------- stages

\* The stage of the run, read off the program's state: Failed once an
\* exception propagates, Saved once a model file is written, DataLoaded once
\* df is bound, Idle before.  No statement of main() builds windows, trains or
\* evaluates, so no state maps to WindowsPrepared, Training or Evaluated.
Stage ==
    IF exc # "none" THEN "Failed"
    ELSE IF artifact THEN "Saved"
    ELSE IF df.loaded THEN "DataLoaded"
    ELSE "Idle"

\* The statements of main(), in source order.
MainOrder == <<"greet", "read", "preview", "style", "plot", "show">>

IsPrefix(s, t) == Len(s) <= Len(t) /\ \A i \in 1..Len(s) : s[i] = t[i]

Range(s) == {s[i] : i \in 1..Len(s)}

StrictlyAscending(s) == \A i \in 1..(Len(s) - 1) : s[i] < s[i + 1]

\* Exceptions raised by the read_csv call.
LoadErrors == {"FileNotFoundError", "EmptyDataError", "ParserError", "ValueError"}

\* An input the loader is required to reject: no file, an empty file, an
\* unparsable file, or a table without one of the six required columns.
InvalidInput(f) == f.kind # "table" \/ ~(AllColumns \subseteq f.cols)

\* ------------------------------------------------------------- C1

\* C1: main() as written only prints, reads the CSV file, previews and plots
\* one column; the placeholders do nothing, so no run writes a model artifact
\* or reaches the Saved stage.
C1_OnlyLoadPreviewPlot ==
    /\ artifact = FALSE
    /\ Stage # "Saved"
    /\ Range(steps) \subseteq Range(MainOrder)
    /\ plotted \in {"none", PlotCol}

\* A script run that passed the placeholders and exited with status 0.
C1_Witness ==
    /\ pc = "exited"
    /\ exitCode = 0
    /\ steps = MainOrder
    /\ shown

\* ------------------------------------------------------------- C4

\* C4: for every valid input file, whatever the order of its rows, the
\* records the loader produces are strictly ascending by date, so no two of
\* them have the same date.
C4_LoaderSortedNoDuplicates ==
    (df.loaded /\ ~InvalidInput(file)) => StrictlyAscending(df.index)

\* ------------------------------------------------------------- C5

\* C5: the loader never returns records for an input that is missing, empty,
\* unparsable or lacks one of the required columns.
C5_InvalidInputNeverLoaded ==
    InvalidInput(file) => ~df.loaded

\* ------------------------------------------------------------- C6

\* C6: the process exits with status 0 only when the run reached a successful
\* Save, and with a non-zero status whenever an error ended the run.  Stated
\* for the input files the loader is meant to accept.
C6_ExitZeroIffSaved ==
    (pc = "exited" /\ ~InvalidInput(file)) =>
        /\ (exitCode = 0 <=> Stage = "Saved")
        /\ (Stage = "Failed" => exitCode # 0)

\* ------------------------------------------------------------- C8

\* C8: a run that has ended has ended in Saved or in Failed.  Stated for the
\* input files the loader is meant to accept.
C8_EndsSavedOrFailed ==
    (pc = "exited" /\ ~InvalidInput(file)) => Stage \in {"Saved", "Failed"}

\* ------------------------------------------------------------- C9

\* C9: once the read_csv call has failed, the failure is fatal: no later
\* statement of main() is started, the read is not attempted again, and the
\* process ends with a non-zero status.
C9_LoadFailureIsFatal ==
    exc \in LoadErrors =>
        /\ steps = <<"greet", "read">>
        /\ ~df.loaded
        /\ preview = <<>> /\ plotted = "none" /\ ~shown /\ ~artifact
        /\ pc \in {"raised", "exited"}
        /\ (pc = "exited" => exitCode = 1)

\* A run whose load failed and whose process has ended.
C9_Witness ==
    /\ exc \in LoadErrors
    /\ pc = "exited"
    /\ exitCode = 1

\* ------------------------------------------------------------- C10

\* C10: main() is called only when the file is run as a script, and then
\* exactly once; its statements are started in source order (greeting, read,
\* preview, plot display), each at most once.
C10_MainOnceInOrder ==
    /\ mainCalls <= 1
    /\ (runMode = "import" => mainCalls = 0 /\ steps = <<>>)
    /\ (runMode = "script" /\ pc # "module" => mainCalls = 1)
    /\ IsPrefix(steps, MainOrder)
    /\ (mainCalls = 0 => df = NoFrame /\ preview = <<>> /\ ~shown)

\* A script run that went through every statement of main() once.
C10_Witness ==
    /\ runMode = "script"
    /\ mainCalls = 1
    /\ pc = "exited"
    /\ steps = MainOrder

====
